---- MODULE Spec2Model ----
(***************************************************************************)
(* The decode layer of darksky.rs: serde_json Value trees are turned into  *)
(* the typed models of src/src/models.rs.  A JSON document is built by an  *)
(* environment (a well-formed response, then keys removed or values        *)
(* replaced), and one of the decoders is applied to it.                    *)
(***************************************************************************)
EXTENDS Integers, Sequences, FiniteSets, TLC

VARIABLES kind, doc, nedits, op, res

vars == <<kind, doc, nedits, op, res>>

(***************************************************************************)
(* Bounds of the exploration.                                              *)
(***************************************************************************)
MaxEdits == 2

(***************************************************************************)
(* serde_json::Value.  Numbers keep the three representations of           *)
(* serde_json (unsigned integer, negative integer, float); a float is      *)
(* held in tenths, so Float(725) is the JSON number 72.5.                  *)
(***************************************************************************)
Null == [t |-> "null"]
Bool(b) == [t |-> "bool", b |-> b]
Str(s) == [t |-> "str", s |-> s]
PosInt(n) == [t |-> "num", k |-> "PosInt", n |-> n]
NegInt(n) == [t |-> "num", k |-> "NegInt", n |-> n]
Float(tenths) == [t |-> "num", k |-> "Float", n |-> tenths]
Arr(a) == [t |-> "arr", a |-> a]
Obj(m) == [t |-> "obj", m |-> m]

(* Option<T> *)
None == <<>>
Some(x) == <<x>>

(* Result<T>: Ok, or Error::Decode in the two shapes the decode layer uses *)
Ok(v) == [ok |-> TRUE, v |-> v]
Missing(name) == [ok |-> FALSE, err |-> "Missing", field |-> name]
TypeMismatch(name, expected, actual) ==
    [ok |-> FALSE, err |-> "TypeMismatch", field |-> name,
     expected |-> expected, value |-> actual]

(***************************************************************************)
(* Value::as_u64 and Value::as_f64.  as_u64 answers only for an unsigned   *)
(* integer; as_f64 answers for every number, converting integers.          *)
(***************************************************************************)
as_u64(v) == IF v.t = "num" /\ v.k = "PosInt" THEN Some(v.n) ELSE None

as_f64(v) ==
    IF v.t = "num"
    THEN Some(IF v.k = "Float" THEN v.n ELSE v.n * 10)
    ELSE None

(***************************************************************************)
(* utils: into_map, into_string, remove, opt, req!                         *)
(***************************************************************************)
into_map(name, v) ==
    IF v.t = "obj" THEN Ok(v.m) ELSE TypeMismatch(name, "object", v)

into_string(name, v) ==
    IF v.t = "str" THEN Ok(v.s) ELSE TypeMismatch(name, "string", v)

remove(m, key) == IF key \in DOMAIN m THEN Ok(m[key]) ELSE Missing(key)

Without(m, key) == [x \in (DOMAIN m) \ {key} |-> m[x]]

req(o, name, expected, actual) ==
    IF o = None THEN TypeMismatch(name, expected, actual) ELSE Ok(o[1])

(***************************************************************************)
(* Token tables.  Each is the sequence of (variant, token) pairs in the    *)
(* order of the source.                                                    *)
(***************************************************************************)
(* a token of the table written with a capital *)
IconNames_Capitalised ==
    << <<"ClearDay", "clear-day">>,
       <<"ClearNight", "clear-night">>,
       <<"Cloudy", "cloudy">>,
       <<"Fog", "fog">>,
       <<"Hail", "hail">>,
       <<"PartlyCloudyDay", "partly-cloudy-day">>,
       <<"PartlyCloudyNight", "partly-cloudy-night">>,
       <<"Rain", "rain">>,
       <<"Sleet", "Sleet">>,
       <<"Snow", "snow">>,
       <<"Thunderstorm", "thunderstorm">>,
       <<"Tornado", "tornado">>,
       <<"Wind", "wind">> >>

(* map_names! { Icon; ... } *)
IconNames ==
    << <<"ClearDay", "clear-day">>,
       <<"ClearNight", "clear-night">>,
       <<"Cloudy", "cloudy">>,
       <<"Fog", "fog">>,
       <<"Hail", "hail">>,
       <<"PartlyCloudyDay", "partly-cloudy-day">>,
       <<"PartlyCloudyNight", "partly-cloudy-night">>,
       <<"Rain", "rain">>,
       <<"Sleet", "sleet">>,
       <<"Snow", "snow">>,
       <<"Thunderstorm", "thunderstorm">>,
       <<"Tornado", "tornado">>,
       <<"Wind", "wind">> >>

(* map_names! { PrecipitationType; ... } *)
PrecipitationTypeNames ==
    << <<"Rain", "rain">>,
       <<"Sleet", "sleet">>,
       <<"Snow", "snow">> >>

(* an arm of Block::name copied without changing its token *)
BlockName_Repeated ==
    << <<"Currently", "currently">>,
       <<"Daily", "daily">>,
       <<"Flags", "flags">>,
       <<"Hourly", "daily">>,
       <<"Minutely", "minutely">> >>

(* Block::name: the match arms *)
BlockName ==
    << <<"Currently", "currently">>,
       <<"Daily", "daily">>,
       <<"Flags", "flags">>,
       <<"Hourly", "hourly">>,
       <<"Minutely", "minutely">> >>

(* enum Block: the serde rename attribute of each variant *)
BlockRename ==
    << <<"Currently", "currently">>,
       <<"Daily", "daily">>,
       <<"Flags", "flags">>,
       <<"Hourly", "hourly">>,
       <<"Minutely", "minutely">> >>

(* Language::name: the match arms *)
LanguageName ==
    << <<"Ar", "ar">>,
       <<"Az", "az">>,
       <<"Be", "be">>,
       <<"Bs", "bs">>,
       <<"Cs", "cs">>,
       <<"De", "de">>,
       <<"El", "el">>,
       <<"En", "en">>,
       <<"Es", "es">>,
       <<"Fr", "fr">>,
       <<"Hr", "hr">>,
       <<"Hu", "hu">>,
       <<"Id", "id">>,
       <<"It", "it">>,
       <<"Is", "is">>,
       <<"Kw", "kw">>,
       <<"Nb", "nb">>,
       <<"Nl", "nl">>,
       <<"Pl", "pl">>,
       <<"Pt", "pt">>,
       <<"Ru", "ru">>,
       <<"Sk", "sk">>,
       <<"Sr", "sr">>,
       <<"Sv", "sv">>,
       <<"Tet", "tet">>,
       <<"Tr", "tr">>,
       <<"Uk", "uk">>,
       <<"XPigLatin", "x-pig-latin">>,
       <<"Zh", "zh">>,
       <<"ZhTw", "zh-tw">> >>

(* enum Language: the serde rename attribute of each variant *)
LanguageRename ==
    << <<"Ar", "ar">>,
       <<"Az", "az">>,
       <<"Be", "be">>,
       <<"Bs", "bs">>,
       <<"Cs", "cs">>,
       <<"De", "de">>,
       <<"El", "el">>,
       <<"En", "en">>,
       <<"Es", "es">>,
       <<"Fr", "fr">>,
       <<"Hr", "hr">>,
       <<"Hu", "hu">>,
       <<"Id", "id">>,
       <<"It", "it">>,
       <<"Is", "is">>,
       <<"Kw", "kw">>,
       <<"Nb", "nb">>,
       <<"Nl", "nl">>,
       <<"Pl", "pl">>,
       <<"Pt", "pt">>,
       <<"Ru", "ru">>,
       <<"Sk", "sk">>,
       <<"Sr", "sr">>,
       <<"Sv", "sv">>,
       <<"Tet", "tet">>,
       <<"Tr", "tr">>,
       <<"Uk", "uk">>,
       <<"XPigLatin", "x-pig-latin">>,
       <<"Zh", "zh">>,
       <<"ZhTw", "zh-tw">> >>

(* Unit::name: the match arms *)
UnitName ==
    << <<"Auto", "auto">>,
       <<"Ca", "ca">>,
       <<"Si", "si">>,
       <<"Uk2", "uk2">>,
       <<"Us", "us">> >>

(* enum Unit: the serde rename attribute of each variant *)
UnitRename ==
    << <<"Auto", "auto">>,
       <<"Ca", "ca">>,
       <<"Si", "si">>,
       <<"Uk2", "uk2">>,
       <<"Us", "us">> >>


(***************************************************************************)
(* Enum name mapping: name() walks the match arms; from_str / the serde    *)
(* deserializer take the first arm whose token equals the string.          *)
(***************************************************************************)
Variants(table) == {table[i][1] : i \in 1..Len(table)}

Tokens(table) == {table[i][2] : i \in 1..Len(table)}

FirstIndex(S) == CHOOSE i \in S : \A j \in S : i <= j

name(table, variant) ==
    table[FirstIndex({i \in 1..Len(table) : table[i][1] = variant})][2]

from_str(table, s) ==
    LET I == {i \in 1..Len(table) : table[i][2] = s}
    IN  IF I = {} THEN None ELSE Some(table[FirstIndex(I)][1])

EnumDecode(enum, table, v) ==
    IF v.t = "str" /\ from_str(table, v.s) # None
    THEN Ok(from_str(table, v.s)[1])
    ELSE TypeMismatch(enum, "one of known tokens", v)

IconDecode(v) == EnumDecode("Icon", IconNames, v)

PrecipitationTypeDecode(v) ==
    EnumDecode("PrecipitationType", PrecipitationTypeNames, v)

(***************************************************************************)
(* Entity decoders.  Each decode function is the sequence of its field     *)
(* extractions in the order of the struct expression.  A field is          *)
(*   f: the struct field, k: the JSON key, c: the coercion or decoder,     *)
(*   e: the element decoder of an array, and m: the shape of extraction:   *)
(*   "req"    req!(try!(remove(&mut value, k)).as_c())                     *)
(*   "try"    try!(remove(&mut value, k).and_then(c))                      *)
(*   "opt"    try!(opt(&mut value, k, c))                                  *)
(*   "optdef" try!(opt(&mut value, k, c)).unwrap_or(vec![])                *)
(*   "ok"     remove(&mut value, k).ok().and_then(|v| v.as_c())            *)
(*   "arr"    try!(decode_array(try!(remove(&mut value, k)), e))           *)
(***************************************************************************)
FD(f, k, m, c, e) == [f |-> f, k |-> k, m |-> m, c |-> c, e |-> e]

(* struct Alert and struct Forecast: the JSON keys of the fields in the     *)
(* order the struct declares them                                          *)
AlertDeclaration == <<"expires", "description", "title", "uri">>

ForecastDeclaration ==
    <<"alerts", "currently", "daily", "flags", "hourly", "latitude",
      "longitude", "minutely", "offset", "timezone">>

(* the fields of Alert extracted in the order the struct declares them *)
AlertFields_DeclarationOrder ==
    << FD("expires", "expires", "req", "u64", ""),
       FD("description", "description", "try", "string", ""),
       FD("title", "title", "try", "string", ""),
       FD("uri", "uri", "try", "string", "") >>

(* expires coerced with as_f64 *)
AlertFields_FloatExpires ==
    << FD("description", "description", "try", "string", ""),
       FD("expires", "expires", "req", "f64", ""),
       FD("title", "title", "try", "string", ""),
       FD("uri", "uri", "try", "string", "") >>

(* Alert::decode, models.rs lines 84-87 *)
AlertFields ==
    << FD("description", "description", "try", "string", ""),
       FD("expires", "expires", "req", "u64", ""),
       FD("title", "title", "try", "string", ""),
       FD("uri", "uri", "try", "string", "") >>

(* Current::decode, models.rs lines 119-135 *)
CurrentFields ==
    << FD("apparent_temperature", "apparentTemperature", "req", "f64", ""),
       FD("cloud_cover", "cloudCover", "req", "f64", ""),
       FD("dew_point", "dewPoint", "req", "f64", ""),
       FD("humidity", "humidity", "req", "f64", ""),
       FD("icon", "icon", "try", "Icon", ""),
       FD("nearest_storm_bearing", "nearestStormBearing", "ok", "u64", ""),
       FD("nearest_storm_distance", "nearestStormDistance", "ok", "u64", ""),
       FD("ozone", "ozone", "req", "f64", ""),
       FD("precip_intensity", "precipIntensity", "req", "u64", ""),
       FD("precip_probability", "precipProbability", "req", "u64", ""),
       FD("pressure", "pressure", "req", "f64", ""),
       FD("summary", "summary", "try", "string", ""),
       FD("temperature", "temperature", "req", "f64", ""),
       FD("time", "time", "req", "u64", ""),
       FD("visibility", "visibility", "ok", "f64", ""),
       FD("wind_bearing", "windBearing", "req", "u64", ""),
       FD("wind_speed", "windSpeed", "req", "f64", "") >>

(* the elements of daily.data decoded by HourlyData::decode *)
DailyFields_HourlyElements ==
    << FD("data", "data", "arr", "array", "HourlyData"),
       FD("icon", "icon", "try", "Icon", ""),
       FD("summary", "summary", "try", "string", "") >>

(* Daily::decode, models.rs lines 153-155 *)
DailyFields ==
    << FD("data", "data", "arr", "array", "DailyData"),
       FD("icon", "icon", "try", "Icon", ""),
       FD("summary", "summary", "try", "string", "") >>

(* DailyData::decode, models.rs lines 196-221 *)
DailyDataFields ==
    << FD("apparent_temperature_max_time", "apparentTemperatureMaxTime", "req", "u64", ""),
       FD("apparent_temperature_max", "apparentTemperatureMax", "req", "f64", ""),
       FD("apparent_temperature_min_time", "apparentTemperatureMinTime", "req", "u64", ""),
       FD("apparent_temperature_min", "apparentTemperatureMin", "req", "f64", ""),
       FD("cloud_cover", "cloudCover", "req", "f64", ""),
       FD("dew_point", "dewPoint", "req", "f64", ""),
       FD("humidity", "humidity", "req", "f64", ""),
       FD("icon", "icon", "try", "Icon", ""),
       FD("moon_phase", "moonPhase", "req", "f64", ""),
       FD("ozone", "ozone", "req", "f64", ""),
       FD("precip_intensity_max", "precipIntensityMax", "req", "f64", ""),
       FD("precip_intensity", "precipIntensity", "req", "f64", ""),
       FD("precip_probability", "precipProbability", "req", "f64", ""),
       FD("precip_type", "precipType", "opt", "PrecipitationType", ""),
       FD("pressure", "pressure", "req", "f64", ""),
       FD("summary", "summary", "try", "string", ""),
       FD("sunrise_time", "sunriseTime", "req", "u64", ""),
       FD("sunset_time", "sunsetTime", "req", "u64", ""),
       FD("temperature_max_time", "temperatureMaxTime", "req", "u64", ""),
       FD("temperature_max", "temperatureMax", "req", "f64", ""),
       FD("temperature_min_time", "temperatureMinTime", "req", "u64", ""),
       FD("temperature_min", "temperatureMin", "req", "f64", ""),
       FD("time", "time", "req", "u64", ""),
       FD("visibility", "visibility", "ok", "f64", ""),
       FD("wind_bearing", "windBearing", "req", "f64", ""),
       FD("wind_speed", "windSpeed", "req", "f64", "") >>

(* Flags::decode, models.rs lines 245-253 *)
FlagsFields ==
    << FD("darksky_stations", "darksky-stations", "opt", "array", "string"),
       FD("darksky_unavailable", "darksky-unavailable", "opt", "string", ""),
       FD("datapoint_stations", "datapoint-stations", "opt", "array", "string"),
       FD("isd_stations", "isd-stations", "opt", "array", "string"),
       FD("lamp_stations", "lamp-stations", "opt", "array", "string"),
       FD("metar_stations", "metar-stations", "opt", "array", "string"),
       FD("metno_license", "metno-license", "opt", "string", ""),
       FD("sources", "sources", "opt", "array", "string"),
       FD("units", "units", "opt", "string", "") >>

(* minutely decoded by Hourly::decode *)
ForecastFields_MinutelyAsHourly ==
    << FD("alerts", "alerts", "optdef", "array", "Alert"),
       FD("currently", "currently", "try", "Current", ""),
       FD("daily", "daily", "try", "Daily", ""),
       FD("flags", "flags", "try", "Flags", ""),
       FD("hourly", "hourly", "try", "Hourly", ""),
       FD("latitude", "latitude", "req", "f64", ""),
       FD("longitude", "longitude", "req", "f64", ""),
       FD("minutely", "minutely", "opt", "Hourly", ""),
       FD("offset", "offset", "req", "f64", ""),
       FD("timezone", "timezone", "try", "string", "") >>

(* latitude taken like visibility: remove(..).ok().and_then(as_f64) *)
ForecastFields_LenientLatitude ==
    << FD("alerts", "alerts", "optdef", "array", "Alert"),
       FD("currently", "currently", "try", "Current", ""),
       FD("daily", "daily", "try", "Daily", ""),
       FD("flags", "flags", "try", "Flags", ""),
       FD("hourly", "hourly", "try", "Hourly", ""),
       FD("latitude", "latitude", "ok", "f64", ""),
       FD("longitude", "longitude", "req", "f64", ""),
       FD("minutely", "minutely", "opt", "Minutely", ""),
       FD("offset", "offset", "req", "f64", ""),
       FD("timezone", "timezone", "try", "string", "") >>

(* Forecast::decode, models.rs lines 278-287 *)
ForecastFields ==
    << FD("alerts", "alerts", "optdef", "array", "Alert"),
       FD("currently", "currently", "try", "Current", ""),
       FD("daily", "daily", "try", "Daily", ""),
       FD("flags", "flags", "try", "Flags", ""),
       FD("hourly", "hourly", "try", "Hourly", ""),
       FD("latitude", "latitude", "req", "f64", ""),
       FD("longitude", "longitude", "req", "f64", ""),
       FD("minutely", "minutely", "opt", "Minutely", ""),
       FD("offset", "offset", "req", "f64", ""),
       FD("timezone", "timezone", "try", "string", "") >>

(* the elements of hourly.data decoded by MinutelyData::decode *)
HourlyFields_MinutelyElements ==
    << FD("data", "data", "arr", "array", "MinutelyData"),
       FD("icon", "icon", "try", "Icon", ""),
       FD("summary", "summary", "try", "string", "") >>

(* Hourly::decode, models.rs lines 305-307 *)
HourlyFields ==
    << FD("data", "data", "arr", "array", "HourlyData"),
       FD("icon", "icon", "try", "Icon", ""),
       FD("summary", "summary", "try", "string", "") >>

(* HourlyData::decode, models.rs lines 338-353 *)
HourlyDataFields ==
    << FD("apparent_temperature", "apparentTemperature", "req", "f64", ""),
       FD("cloud_cover", "cloudCover", "req", "f64", ""),
       FD("dew_point", "dewPoint", "req", "f64", ""),
       FD("humidity", "humidity", "req", "f64", ""),
       FD("icon", "icon", "try", "Icon", ""),
       FD("ozone", "ozone", "req", "f64", ""),
       FD("precip_intensity", "precipIntensity", "req", "f64", ""),
       FD("precip_probability", "precipProbability", "req", "f64", ""),
       FD("precip_type", "precipType", "opt", "PrecipitationType", ""),
       FD("pressure", "pressure", "req", "f64", ""),
       FD("summary", "summary", "try", "string", ""),
       FD("temperature", "temperature", "req", "f64", ""),
       FD("time", "time", "req", "u64", ""),
       FD("visibility", "visibility", "ok", "f64", ""),
       FD("wind_bearing", "windBearing", "req", "f64", ""),
       FD("wind_speed", "windSpeed", "req", "f64", "") >>

(* Minutely::decode, models.rs lines 371-373 *)
MinutelyFields ==
    << FD("data", "data", "arr", "array", "MinutelyData"),
       FD("icon", "icon", "try", "Icon", ""),
       FD("summary", "summary", "try", "string", "") >>

(* time taken like visibility: remove(..).ok().and_then(as_u64) *)
MinutelyDataFields_LenientTime ==
    << FD("precip_intensity", "precipIntensity", "req", "f64", ""),
       FD("precip_probability", "precipProbability", "req", "f64", ""),
       FD("time", "time", "ok", "u64", "") >>

(* MinutelyData::decode, models.rs lines 391-393 *)
MinutelyDataFields ==
    << FD("precip_intensity", "precipIntensity", "req", "f64", ""),
       FD("precip_probability", "precipProbability", "req", "f64", ""),
       FD("time", "time", "req", "u64", "") >>

Fields(entity) ==
    CASE entity = "Alert" -> AlertFields
      [] entity = "Current" -> CurrentFields
      [] entity = "Daily" -> DailyFields
      [] entity = "DailyData" -> DailyDataFields
      [] entity = "Flags" -> FlagsFields
      [] entity = "Forecast" -> ForecastFields
      [] entity = "Hourly" -> HourlyFields
      [] entity = "HourlyData" -> HourlyDataFields
      [] entity = "Minutely" -> MinutelyFields
      [] entity = "MinutelyData" -> MinutelyDataFields

Primitive(c, v) == IF c = "u64" THEN as_u64(v) ELSE as_f64(v)

Expected(c) == IF c = "u64" THEN "integer" ELSE "float"

RECURSIVE Decode(_, _, _, _)
RECURSIVE DecodeElements(_, _, _, _)
RECURSIVE DecodeFields(_, _, _)

(* decode_array: the elements in order, stopping at the first failure *)
DecodeElements(a, e, nm, acc) ==
    IF a = <<>> THEN Ok(acc)
    ELSE LET r == Decode(e, "", nm, Head(a))
         IN  IF ~r.ok THEN r
             ELSE DecodeElements(Tail(a), e, nm, Append(acc, r.v))

decode_array(nm, v, e) ==
    IF v.t = "arr" THEN DecodeElements(v.a, e, nm, <<>>)
    ELSE TypeMismatch(nm, "array", v)

(* opt: an absent key is None, a present one goes through the decoder *)
opt(m, key, c, e) ==
    IF key \notin DOMAIN m THEN Ok(None)
    ELSE LET r == Decode(c, e, key, m[key])
         IN  IF r.ok THEN Ok(Some(r.v)) ELSE r

(* one field extraction of a struct expression *)
Extract(fd, m) ==
    CASE fd.m = "req" ->
           LET r == remove(m, fd.k)
           IN  IF ~r.ok THEN r
               ELSE req(Primitive(fd.c, r.v), fd.k, Expected(fd.c), r.v)
      [] fd.m = "try" ->
           LET r == remove(m, fd.k)
           IN  IF ~r.ok THEN r ELSE Decode(fd.c, fd.e, fd.k, r.v)
      [] fd.m = "opt" -> opt(m, fd.k, fd.c, fd.e)
      [] fd.m = "optdef" ->
           LET r == opt(m, fd.k, fd.c, fd.e)
           IN  IF ~r.ok THEN r
               ELSE IF r.v = None THEN Ok(<<>>) ELSE Ok(r.v[1])
      [] fd.m = "ok" ->
           LET r == remove(m, fd.k)
           IN  IF ~r.ok THEN Ok(None) ELSE Ok(Primitive(fd.c, r.v))
      [] fd.m = "arr" ->
           LET r == remove(m, fd.k)
           IN  IF ~r.ok THEN r ELSE decode_array(fd.k, r.v, fd.e)

(* the struct expression: fields in order, the first failure returned *)
DecodeFields(fs, m, acc) ==
    IF fs = <<>> THEN Ok(acc)
    ELSE LET fd == Head(fs)
             r == Extract(fd, m)
         IN  IF ~r.ok THEN r
             ELSE DecodeFields(Tail(fs), Without(m, fd.k), (fd.f :> r.v) @@ acc)

DecodeEntity(entity, v) ==
    LET m == into_map(entity, v)
    IN  IF ~m.ok THEN m ELSE DecodeFields(Fields(entity), m.v, <<>>)

Decode(c, e, nm, v) ==
    CASE c = "string" -> into_string(nm, v)
      [] c = "Icon" -> IconDecode(v)
      [] c = "PrecipitationType" -> PrecipitationTypeDecode(v)
      [] c = "array" -> decode_array(nm, v, e)
      [] OTHER -> DecodeEntity(c, v)

AlertDecode(v) == DecodeEntity("Alert", v)
CurrentDecode(v) == DecodeEntity("Current", v)
DailyDecode(v) == DecodeEntity("Daily", v)
DailyDataDecode(v) == DecodeEntity("DailyData", v)
FlagsDecode(v) == DecodeEntity("Flags", v)
ForecastDecode(v) == DecodeEntity("Forecast", v)
HourlyDecode(v) == DecodeEntity("Hourly", v)
HourlyDataDecode(v) == DecodeEntity("HourlyData", v)
MinutelyDecode(v) == DecodeEntity("Minutely", v)
MinutelyDataDecode(v) == DecodeEntity("MinutelyData", v)


(***************************************************************************)
(* serde's derived Deserialize of the request-side enums: the string is    *)
(* matched against the rename attributes.                                  *)
(***************************************************************************)
Deserialize(table, v) ==
    IF v.t = "str" /\ from_str(table, v.s) # None
    THEN Ok(from_str(table, v.s)[1])
    ELSE [ok |-> FALSE, err |-> "Json"]

Enums == {"Icon", "PrecipitationType", "Block", "Language", "Unit"}

NameTable(enum) ==
    CASE enum = "Icon" -> IconNames
      [] enum = "PrecipitationType" -> PrecipitationTypeNames
      [] enum = "Block" -> BlockName
      [] enum = "Language" -> LanguageName
      [] enum = "Unit" -> UnitName

EnumFromValue(enum, v) ==
    CASE enum = "Icon" -> IconDecode(v)
      [] enum = "PrecipitationType" -> PrecipitationTypeDecode(v)
      [] enum = "Block" -> Deserialize(BlockRename, v)
      [] enum = "Language" -> Deserialize(LanguageRename, v)
      [] enum = "Unit" -> Deserialize(UnitRename, v)

(***************************************************************************)
(* Documents.  A well-formed response of the API, as the decoders of       *)
(* models.rs accept it, and the minimal document of a response from which  *)
(* the caller excluded every block but `currently`.                        *)
(***************************************************************************)
BaseCurrent ==
    Obj([apparentTemperature |-> Float(701), cloudCover |-> Float(3),
         dewPoint |-> Float(552), humidity |-> Float(6),
         icon |-> Str("clear-day"), nearestStormBearing |-> PosInt(90),
         nearestStormDistance |-> PosInt(12), ozone |-> Float(3005),
         precipIntensity |-> PosInt(0), precipProbability |-> PosInt(0),
         pressure |-> Float(10132), summary |-> Str("Clear"),
         temperature |-> Float(725), time |-> PosInt(1000),
         visibility |-> Float(99), windBearing |-> PosInt(180),
         windSpeed |-> Float(45)])

BaseDailyData(time) ==
    Obj([apparentTemperatureMaxTime |-> PosInt(time + 50),
         apparentTemperatureMax |-> Float(801),
         apparentTemperatureMinTime |-> PosInt(time + 10),
         apparentTemperatureMin |-> Float(502), cloudCover |-> Float(3),
         dewPoint |-> Float(552), humidity |-> Float(6),
         icon |-> Str("partly-cloudy-day"), moonPhase |-> Float(5),
         ozone |-> Float(3005), precipIntensityMax |-> Float(1),
         precipIntensity |-> PosInt(0), precipProbability |-> Float(2),
         precipType |-> Str("rain"), pressure |-> Float(10132),
         summary |-> Str("Partly cloudy"), sunriseTime |-> PosInt(time + 20),
         sunsetTime |-> PosInt(time + 70),
         temperatureMaxTime |-> PosInt(time + 50),
         temperatureMax |-> Float(805),
         temperatureMinTime |-> PosInt(time + 10),
         temperatureMin |-> Float(505), time |-> PosInt(time),
         visibility |-> Float(99), windBearing |-> PosInt(180),
         windSpeed |-> Float(45)])

BaseHourlyData(time) ==
    Obj([apparentTemperature |-> Float(701), cloudCover |-> Float(3),
         dewPoint |-> Float(552), humidity |-> Float(6),
         icon |-> Str("rain"), ozone |-> Float(3005),
         precipIntensity |-> Float(5), precipProbability |-> Float(2),
         precipType |-> Str("rain"), pressure |-> Float(10132),
         summary |-> Str("Light rain"), temperature |-> Float(725),
         time |-> PosInt(time), visibility |-> Float(99),
         windBearing |-> PosInt(180), windSpeed |-> Float(45)])

BaseMinutelyData(time) ==
    Obj([precipIntensity |-> Float(5), precipProbability |-> Float(2),
         time |-> PosInt(time)])

BaseDaily ==
    Obj([data |-> Arr(<<BaseDailyData(1000), BaseDailyData(1100),
                        BaseDailyData(1200)>>),
         icon |-> Str("rain"), summary |-> Str("Rain on Tuesday")])

BaseHourly ==
    Obj([data |-> Arr(<<BaseHourlyData(1000), BaseHourlyData(1010)>>),
         icon |-> Str("cloudy"), summary |-> Str("Cloudy")])

BaseMinutely ==
    Obj([data |-> Arr(<<BaseMinutelyData(1000), BaseMinutelyData(1001)>>),
         icon |-> Str("fog"), summary |-> Str("Fog")])

BaseFlags ==
    Obj(("isd-stations" :> Arr(<<Str("724940-23234"), Str("724943-93231")>>))
        @@ [sources |-> Arr(<<Str("isd"), Str("lamp"), Str("nwspa")>>),
            units |-> Str("us")])

BaseAlert ==
    Obj([description |-> Str("FLOOD WATCH"), expires |-> PosInt(2000),
         title |-> Str("Flood Watch"), uri |-> Str("http://alerts")])

BaseForecast ==
    Obj([alerts |-> Arr(<<BaseAlert>>), currently |-> BaseCurrent,
         daily |-> BaseDaily, flags |-> BaseFlags, hourly |-> BaseHourly,
         latitude |-> Float(378), longitude |-> Float(-1224),
         minutely |-> BaseMinutely, offset |-> NegInt(-7),
         timezone |-> Str("America/Los_Angeles")])

MinimalForecast ==
    Obj([latitude |-> Float(378), longitude |-> Float(-1224),
         timezone |-> Str("America/Los_Angeles"),
         currently |-> Obj([time |-> PosInt(1000), temperature |-> Float(725),
                            icon |-> Str("clear-day")])])

(***************************************************************************)
(* Editing a document: a path is a sequence of object keys and of array    *)
(* positions written as strings.                                           *)
(***************************************************************************)
Index(s) == CHOOSE i \in 1..9 : ToString(i) = s

RECURSIVE Has(_, _)
Has(v, p) ==
    IF p = <<>> THEN TRUE
    ELSE IF v.t = "obj"
         THEN Head(p) \in DOMAIN v.m /\ Has(v.m[Head(p)], Tail(p))
         ELSE IF v.t = "arr"
              THEN /\ \E i \in 1..Len(v.a) : ToString(i) = Head(p)
                   /\ Has(v.a[Index(Head(p))], Tail(p))
              ELSE FALSE

RECURSIVE Put(_, _, _)
Put(v, p, nv) ==
    IF p = <<>> THEN nv
    ELSE IF v.t = "obj"
         THEN Obj([v.m EXCEPT ![Head(p)] = Put(@, Tail(p), nv)])
         ELSE Arr([v.a EXCEPT ![Index(Head(p))] = Put(@, Tail(p), nv)])

RECURSIVE Del(_, _)
Del(v, p) ==
    IF Len(p) = 1
    THEN IF v.t = "obj" THEN Obj(Without(v.m, Head(p)))
         ELSE Arr(SubSeq(v.a, 1, Index(Head(p)) - 1)
                  \o SubSeq(v.a, Index(Head(p)) + 1, Len(v.a)))
    ELSE IF v.t = "obj"
         THEN Obj([v.m EXCEPT ![Head(p)] = Del(@, Tail(p))])
         ELSE Arr([v.a EXCEPT ![Index(Head(p))] = Del(@, Tail(p))])

(* the values a malformed response puts in place of a well-formed one *)
Junk ==
    {Str("not-a-number"), Float(725), NegInt(-5), PosInt(7),
     Str("lunar-eclipse")}

(***************************************************************************)
(* The request side: the Options builder and the two entry points of       *)
(* DarkskyRequester for hyper's Client.  A String is held as the sequence  *)
(* of the pieces it is concatenated from.  The document of a client is     *)
(*   opts: the HashMap of Options; last: for each builder method the       *)
(*   argument of its last call (None before the first); pc: "build" while  *)
(*   the options are built, "response" once the GET was answered, "done"   *)
(*   when the entry point has returned; query: the parameters of the URI   *)
(*   requested; gets: GET requests sent; reads: bodies read.               *)
(***************************************************************************)
MaxBlocks == 2

RECURSIVE join(_, _)
join(names, sep) ==
    IF names = <<>> THEN <<>>
    ELSE IF Len(names) = 1 THEN <<names[1]>>
         ELSE <<names[1], sep>> \o join(Tail(names), sep)

insert(o, key, value) ==
    [x \in (DOMAIN o) \cup {key} |-> IF x = key THEN value ELSE o[x]]

exclude_TrailingComma(o, blocks) ==
    insert(o, "exclude",
           join([i \in 1..Len(blocks) |-> name(BlockName, blocks[i])], ",")
           \o (IF blocks = <<>> THEN <<>> ELSE <<",">>))

exclude(o, blocks) ==
    insert(o, "exclude",
           join([i \in 1..Len(blocks) |-> name(BlockName, blocks[i])], ","))

extend_hourly(o) == insert(o, "extend", <<"hourly">>)

language(o, l) == insert(o, "lang", <<name(LanguageName, l)>>)

unit_IntoLang(o, u) == insert(o, "lang", <<name(UnitName, u)>>)

unit(o, u) == insert(o, "units", <<name(UnitName, u)>>)

(* the arguments the builder methods are called with: any one block, and   *)
(* the lists of up to MaxBlocks blocks out of three                        *)
BlockInputs == {"Currently", "Daily", "Minutely"}

BlockLists ==
    {<<b>> : b \in Variants(BlockName)}
    \cup UNION {[1..n -> BlockInputs] : n \in 0..MaxBlocks}

LanguageInputs == {"En", "Es", "XPigLatin", "ZhTw"}

Methods == {"exclude", "extend_hourly", "language", "unit"}

BuilderCalls ==
    {<<"exclude", b>> : b \in BlockLists}
    \cup {<<"extend_hourly", TRUE>>}
    \cup {<<"language", l>> : l \in LanguageInputs}
    \cup {<<"unit", u>> : u \in Variants(UnitName)}

Apply(o, call) ==
    CASE call[1] = "exclude" -> exclude(o, call[2])
      [] call[1] = "extend_hourly" -> extend_hourly(o)
      [] call[1] = "language" -> language(o, call[2])
      [] call[1] = "unit" -> unit(o, call[2])

(* From<HyperError> and From<JsonError> for Error *)
FromHyperError(e) == [ok |-> FALSE, err |-> "Hyper", cause |-> e]

FromJsonError(e) == [ok |-> FALSE, err |-> "Json", cause |-> e]

(* the query of the URI each entry point requests: get_forecast formats    *)
(* "?units=auto"; get_forecast_with_options writes key=value& for every    *)
(* entry of the map, in the map's iteration order                          *)
GetForecastQuery == {<<"units", <<"auto">>>>}

WithOptionsQuery(o) == {<<key, o[key]>> : key \in DOMAIN o}

(* self.get(&uri).send()?  when the transport fails: the error is returned *)
SendFailed_Retry(d) == [d EXCEPT !.gets = @ + 1, !.pc = "build"]

SendFailed(d) == [d EXCEPT !.gets = @ + 1, !.pc = "done"]

NewClient ==
    [opts |-> <<>>, last |-> [m \in Methods |-> None], pc |-> "build",
     query |-> {}, gets |-> 0, reads |-> 0]

EntityKinds ==
    {"Forecast", "Current", "Daily", "DailyData", "Flags", "Hourly",
     "HourlyData", "Minutely", "MinutelyData", "Alert"}

EnumInputs ==
    {Str(s) : s \in Tokens(IconNames)}
    \cup {Str("Clear-Day"), Str("RAIN"), Str("Snow"), Str("lunar-eclipse"),
          Str(""), PosInt(7), Null, Bool(TRUE), Arr(<<Str("rain")>>)}

Bases(k) ==
    CASE k = "Forecast" -> {BaseForecast, MinimalForecast}
      [] k = "Current" -> {BaseCurrent}
      [] k = "Daily" -> {BaseDaily}
      [] k = "DailyData" -> {BaseDailyData(1000)}
      [] k = "Flags" -> {BaseFlags}
      [] k = "Hourly" -> {BaseHourly}
      [] k = "HourlyData" -> {BaseHourlyData(1000)}
      [] k = "Minutely" -> {BaseMinutely}
      [] k = "MinutelyData" -> {BaseMinutelyData(1000)}
      [] k = "Alert" -> {BaseAlert}
      [] k \in {"Icon", "PrecipitationType"} -> EnumInputs
      [] k = "Client" -> {NewClient}
      [] k = "RoundTrip" ->
           UNION {{[enum |-> e, variant |-> v] : v \in Variants(NameTable(e))} :
                    e \in Enums}

(* the places of a document of each kind that the environment edits *)
Targets(k) ==
    CASE k = "Forecast" ->
           {<<"latitude">>, <<"currently">>, <<"daily">>, <<"alerts">>,
            <<"currently", "humidity">>, <<"currently", "visibility">>,
            <<"minutely", "data", "1", "time">>,
            <<"alerts", "1", "expires">>}
      [] k = "Current" ->
           {<<"time">>, <<"humidity">>, <<"icon">>, <<"visibility">>,
            <<"nearestStormBearing">>, <<"nearestStormDistance">>,
            <<"precipIntensity">>, <<"temperature">>}
      [] k = "Daily" ->
           {<<"data">>, <<"icon">>, <<"data", "1">>, <<"data", "2">>,
            <<"data", "2", "time">>, <<"data", "3", "time">>,
            <<"data", "3", "icon">>}
      [] k = "DailyData" ->
           {<<"time">>, <<"sunriseTime">>, <<"humidity">>, <<"visibility">>,
            <<"precipType">>, <<"icon">>, <<"temperatureMinTime">>}
      [] k = "Flags" ->
           {<<"sources">>, <<"sources", "1">>, <<"sources", "2">>,
            <<"isd-stations">>, <<"units">>}
      [] k = "Hourly" ->
           {<<"data">>, <<"summary">>, <<"data", "1">>, <<"data", "2">>,
            <<"data", "1", "time">>, <<"data", "2", "humidity">>}
      [] k = "HourlyData" ->
           {<<"time">>, <<"humidity">>, <<"visibility">>,
            <<"precipIntensity">>, <<"precipType">>, <<"windBearing">>}
      [] k = "Minutely" ->
           {<<"data">>, <<"icon">>, <<"data", "1">>,
            <<"data", "1", "time">>, <<"data", "2", "precipIntensity">>}
      [] k = "MinutelyData" ->
           {<<"time">>, <<"precipIntensity">>, <<"precipProbability">>}
      [] k = "Alert" ->
           {<<"expires">>, <<"title">>, <<"description">>, <<"uri">>}
      [] OTHER -> {}

(* top-level keys of a Forecast that the environment only removes *)
RemoveOnly(k) ==
    IF k = "Forecast"
    THEN {<<"longitude">>, <<"timezone">>, <<"offset">>, <<"flags">>,
          <<"hourly">>, <<"minutely">>}
    ELSE {}

(***************************************************************************)
(* The state machine.  kind: the decoder the document is meant for; doc:   *)
(* the document; nedits: the edits made to it; op: the call made ("none"   *)
(* before it); res: what the call returned.                                *)
(***************************************************************************)
NotCalled == [ok |-> FALSE, err |-> "NotCalled"]

Init ==
    /\ kind \in EntityKinds
                \cup {"Icon", "PrecipitationType", "RoundTrip", "Client"}
    /\ doc \in Bases(kind)
    /\ nedits = 0
    /\ op = "none"
    /\ res = NotCalled

(* the environment replaces a value of the document *)
ReplaceValue ==
    /\ op = "none"
    /\ nedits < MaxEdits
    /\ \E p \in Targets(kind), v \in Junk :
          /\ Has(doc, p)
          /\ doc' = Put(doc, p, v)
    /\ nedits' = nedits + 1
    /\ UNCHANGED <<kind, op, res>>

(* the environment removes a key of an object or an element of an array *)
RemoveKey ==
    /\ op = "none"
    /\ nedits < MaxEdits
    /\ \E p \in Targets(kind) \cup RemoveOnly(kind) :
          /\ Has(doc, p)
          /\ doc' = Del(doc, p)
    /\ nedits' = nedits + 1
    /\ UNCHANGED <<kind, op, res>>

Call(k, result) ==
    /\ op = "none"
    /\ kind = k
    /\ op' = k
    /\ res' = result
    /\ UNCHANGED <<kind, doc, nedits>>

CallForecastDecode == Call("Forecast", ForecastDecode(doc))
CallCurrentDecode == Call("Current", CurrentDecode(doc))
CallDailyDecode == Call("Daily", DailyDecode(doc))
CallDailyDataDecode == Call("DailyData", DailyDataDecode(doc))
CallFlagsDecode == Call("Flags", FlagsDecode(doc))
CallHourlyDecode == Call("Hourly", HourlyDecode(doc))
CallHourlyDataDecode == Call("HourlyData", HourlyDataDecode(doc))
CallMinutelyDecode == Call("Minutely", MinutelyDecode(doc))
CallMinutelyDataDecode == Call("MinutelyData", MinutelyDataDecode(doc))
CallAlertDecode == Call("Alert", AlertDecode(doc))
CallIconDecode == Call("Icon", IconDecode(doc))
CallPrecipitationTypeDecode ==
    Call("PrecipitationType", PrecipitationTypeDecode(doc))

(* a variant is written as its token ... *)
CallName ==
    /\ kind = "RoundTrip"
    /\ op = "none"
    /\ op' = "name"
    /\ res' = Ok(name(NameTable(doc.enum), doc.variant))
    /\ UNCHANGED <<kind, doc, nedits>>

(* ... and the token read back *)
CallDecodeName ==
    /\ kind = "RoundTrip"
    /\ op = "name"
    /\ op' = "decode"
    /\ res' = EnumFromValue(doc.enum, Str(res.v))
    /\ UNCHANGED <<kind, doc, nedits>>

(* a builder method is called on the options *)
CallBuilder(call) ==
    /\ kind = "Client"
    /\ doc.pc = "build"
    /\ doc.gets = 0
    /\ doc' = [doc EXCEPT !.opts = Apply(@, call),
                          !.last[call[1]] = Some(call[2])]
    /\ UNCHANGED <<kind, nedits, op, res>>

CallExclude == \E b \in BlockLists : CallBuilder(<<"exclude", b>>)
CallExtendHourly == CallBuilder(<<"extend_hourly", TRUE>>)
CallLanguage == \E l \in LanguageInputs : CallBuilder(<<"language", l>>)
CallUnit == \E u \in Variants(UnitName) : CallBuilder(<<"unit", u>>)

(* an entry point builds its URI and sends the GET; the transport either   *)
(* fails, and the entry point returns the error, or answers                *)
Send(entry, query) ==
    /\ kind = "Client"
    /\ doc.pc = "build"
    /\ op' = entry
    /\ \/ /\ doc' = [SendFailed(doc) EXCEPT !.query = query]
          /\ res' = FromHyperError("connection refused")
       \/ /\ doc' = [doc EXCEPT !.gets = @ + 1, !.pc = "response",
                                !.query = query]
          /\ res' = res
    /\ UNCHANGED <<kind, nedits>>

GetForecast ==
    /\ kind = "Client"
    /\ doc.opts = <<>>
    /\ Send("get_forecast", GetForecastQuery)

GetForecastWithOptions ==
    /\ kind = "Client"
    /\ Send("get_forecast_with_options", WithOptionsQuery(doc.opts))

(* serde_json::from_reader(response).map_err(From::from) *)
ReadResponse ==
    /\ kind = "Client"
    /\ doc.pc = "response"
    /\ doc' = [doc EXCEPT !.reads = @ + 1, !.pc = "done"]
    /\ \/ res' = Ok("Forecast")
       \/ res' = FromJsonError("expected value")
    /\ UNCHANGED <<kind, nedits, op>>

Next ==
    \/ ReplaceValue
    \/ RemoveKey
    \/ CallForecastDecode
    \/ CallCurrentDecode
    \/ CallDailyDecode
    \/ CallDailyDataDecode
    \/ CallFlagsDecode
    \/ CallHourlyDecode
    \/ CallHourlyDataDecode
    \/ CallMinutelyDecode
    \/ CallMinutelyDataDecode
    \/ CallAlertDecode
    \/ CallIconDecode
    \/ CallPrecipitationTypeDecode
    \/ CallName
    \/ CallDecodeName
    \/ CallExclude
    \/ CallExtendHourly
    \/ CallLanguage
    \/ CallUnit
    \/ GetForecast
    \/ GetForecastWithOptions
    \/ ReadResponse

Spec == Init /\ [][Next]_vars

(***************************************************************************)
(* Properties of the decode layer.                                         *)
(***************************************************************************)
Restored(d, key, v) == Obj((key :> v) @@ d.m)

DatapointKinds == {"Current", "DailyData", "HourlyData", "MinutelyData"}

(* C1: Forecast::decode of a Forecast object that lacks only `latitude`    *)
(* (with the key put back it decodes) fails with Missing("latitude"): no   *)
(* other error and no Forecast.                                            *)
C1_MissingLatitude ==
    (/\ op = "Forecast"
     /\ doc.t = "obj"
     /\ "latitude" \notin DOMAIN doc.m
     /\ ForecastDecode(Restored(doc, "latitude", Float(378))).ok)
    => res = Missing("latitude")

C1_Witness ==
    /\ op = "Forecast"
    /\ doc = Del(BaseForecast, <<"latitude">>)
    /\ res = Missing("latitude")

C3_AbsentHumidityDecodes ==
    (/\ op \in {"Current", "HourlyData", "DailyData"}
     /\ doc.t = "obj"
     /\ "humidity" \notin DOMAIN doc.m
     /\ "time" \in DOMAIN doc.m
     /\ DecodeEntity(op, Restored(doc, "humidity", Float(6))).ok)
    => /\ res.ok
       /\ res.v.humidity = None
       /\ res.v.time = doc.m["time"].n

(* C4: Forecast::decode of the minimal document (latitude, longitude,      *)
(* timezone and a `currently` of time, temperature, icon) succeeds with    *)
(* icon ClearDay, temperature Some(72.5), daily None and no alerts.        *)
C4_MinimalDocumentDecodes ==
    (op = "Forecast" /\ doc = MinimalForecast)
    => /\ res.ok
       /\ res.v.currently.icon = "ClearDay"
       /\ res.v.currently.temperature = Some(725)
       /\ res.v.daily = None
       /\ res.v.alerts = <<>>

(* C5: Icon::decode and PrecipitationType::decode succeed exactly on a     *)
(* JSON string that is one of the enum's tokens, letter for letter, and    *)
(* give that token's variant; everything else is a type mismatch carrying  *)
(* the value, never a variant.                                             *)
ApiTokens(enum) ==
    IF enum = "Icon"
    THEN {"clear-day", "clear-night", "cloudy", "fog", "hail",
          "partly-cloudy-day", "partly-cloudy-night", "rain", "sleet",
          "snow", "thunderstorm", "tornado", "wind"}
    ELSE {"rain", "sleet", "snow"}

C5_EnumDecodeClosed ==
    op \in {"Icon", "PrecipitationType"}
    => IF doc.t = "str" /\ doc.s \in ApiTokens(op)
       THEN res.ok /\ name(NameTable(op), res.v) = doc.s
       ELSE ~res.ok /\ res.err = "TypeMismatch" /\ res.value = doc

C5_Witness ==
    /\ op = "Icon"
    /\ doc = Str("lunar-eclipse")
    /\ ~res.ok
    /\ res.value = Str("lunar-eclipse")

(* C6: for every variant of every enum with a token table, reading back    *)
(* the token that name() writes gives the variant, and no other variant    *)
(* of the enum is written as the same token.                               *)
C6_EnumRoundTrip ==
    /\ op = "decode" => res = Ok(doc.variant)
    /\ op = "name" =>
         \A w \in Variants(NameTable(doc.enum)) \ {doc.variant} :
            name(NameTable(doc.enum), w) # res.v

C6_Witness ==
    /\ op = "decode"
    /\ doc = [enum |-> "Block", variant |-> "Hourly"]
    /\ res = Ok("Hourly")

BlockKinds == {"Daily", "Hourly", "Minutely"}

ElementKind(block) ==
    CASE block = "Daily" -> "DailyData"
      [] block = "Hourly" -> "HourlyData"
      [] block = "Minutely" -> "MinutelyData"

Failing(entity, a) == {i \in 1..Len(a) : ~DecodeEntity(entity, a[i]).ok}

(* C7: when an element of a `data` array fails its decoder, the block's    *)
(* decoder returns exactly the error of the first failing element, and     *)
(* no sequence of the elements that decoded.                               *)
C7_ArrayFirstFailure ==
    (/\ op \in BlockKinds
     /\ doc.t = "obj"
     /\ "data" \in DOMAIN doc.m
     /\ doc.m["data"].t = "arr"
     /\ Failing(ElementKind(op), doc.m["data"].a) # {})
    => res = DecodeEntity(ElementKind(op),
                          doc.m["data"].a[FirstIndex(Failing(ElementKind(op),
                                                             doc.m["data"].a))])

C7_Witness ==
    /\ op = "Daily"
    /\ doc.t = "obj"
    /\ "data" \in DOMAIN doc.m
    /\ doc.m["data"].t = "arr"
    /\ Len(doc.m["data"].a) = 3
    /\ Failing("DailyData", doc.m["data"].a) = {2}
    /\ ~res.ok
    /\ res = DailyDataDecode(doc.m["data"].a[2])

(* C8: a decoded array has the length of the input array and its i-th      *)
(* element is the decoding of the i-th input element; a value that is not  *)
(* an array is rejected.                                                   *)
C8_ArrayOrderAndLength ==
    /\ (op \in BlockKinds /\ doc.t = "obj" /\ "data" \in DOMAIN doc.m)
       => /\ doc.m["data"].t # "arr"
             => res = TypeMismatch("data", "array", doc.m["data"])
          /\ res.ok
             => /\ doc.m["data"].t = "arr"
                /\ Len(res.v.data) = Len(doc.m["data"].a)
                /\ \A i \in 1..Len(doc.m["data"].a) :
                      Ok(res.v.data[i])
                      = DecodeEntity(ElementKind(op), doc.m["data"].a[i])
    /\ (op = "Flags" /\ doc.t = "obj" /\ "sources" \in DOMAIN doc.m)
       => /\ doc.m["sources"].t # "arr" => ~res.ok
          /\ res.ok
             => /\ doc.m["sources"].t = "arr"
                /\ res.v.sources
                   = Some([i \in 1..Len(doc.m["sources"].a) |->
                             doc.m["sources"].a[i].s])

C8_Witness ==
    /\ op = "Hourly"
    /\ res.ok
    /\ Len(res.v.data) = 2
    /\ res.v.data[1].time = 1000
    /\ res.v.data[2].time = 1010

(* C9: an optional field that is present but of the wrong type makes the   *)
(* decode fail with a type mismatch; in particular `visibility`,           *)
(* `nearestStormBearing` and `nearestStormDistance`.                       *)
WrongKind(key, v) ==
    IF key = "visibility" THEN as_f64(v) = None ELSE as_u64(v) = None

C9_WrongTypedOptionalFails ==
    (op \in {"Current", "DailyData", "HourlyData"} /\ doc.t = "obj")
    => \A key \in {"visibility", "nearestStormBearing",
                   "nearestStormDistance"} \cap DOMAIN doc.m :
          WrongKind(key, doc.m[key])
          => ~res.ok /\ res.err = "TypeMismatch"

(* C10: an integer-typed field is accepted only for a JSON number that is  *)
(* a non-negative integer, and is then decoded to exactly that number; a   *)
(* fractional, negative or non-number value is a type mismatch.            *)
IntegerKeys(entity) ==
    CASE entity = "Alert" -> {"expires"}
      [] entity = "DailyData" ->
           {"time", "sunriseTime", "sunsetTime", "apparentTemperatureMaxTime",
            "apparentTemperatureMinTime", "temperatureMaxTime",
            "temperatureMinTime"}
      [] OTHER -> {"time"}

StructField(key) ==
    CASE key = "sunriseTime" -> "sunrise_time"
      [] key = "sunsetTime" -> "sunset_time"
      [] key = "apparentTemperatureMaxTime" -> "apparent_temperature_max_time"
      [] key = "apparentTemperatureMinTime" -> "apparent_temperature_min_time"
      [] key = "temperatureMaxTime" -> "temperature_max_time"
      [] key = "temperatureMinTime" -> "temperature_min_time"
      [] OTHER -> key

IsUnsignedInteger(v) == v.t = "num" /\ v.k = "PosInt" /\ v.n >= 0

C10_IntegerFieldsExact ==
    (op \in DatapointKinds \cup {"Alert"} /\ doc.t = "obj")
    => \A key \in IntegerKeys(op) \cap DOMAIN doc.m :
          /\ res.ok
             => /\ IsUnsignedInteger(doc.m[key])
                /\ res.v[StructField(key)] = doc.m[key].n
          /\ (/\ ~IsUnsignedInteger(doc.m[key])
              /\ DecodeEntity(op, Restored(doc, key, PosInt(1))).ok)
             => res = TypeMismatch(key, "integer", doc.m[key])

C10_Witness ==
    /\ op = "Alert"
    /\ doc = Put(BaseAlert, <<"expires">>, Float(725))
    /\ res = TypeMismatch("expires", "integer", Float(725))

(* C11: Alert::decode requires title, description and uri, each a JSON     *)
(* string (a missing one is a missing-field error), and treats `expires`   *)
(* as optional: an alert without `expires` decodes.                        *)
C11_AlertExpiresOptional ==
    (op = "Alert" /\ doc.t = "obj")
    => /\ \A key \in {"title", "description", "uri"} :
             /\ (/\ key \notin DOMAIN doc.m
                 /\ AlertDecode(Restored(doc, key, Str("x"))).ok)
                => res = Missing(key)
             /\ (/\ key \in DOMAIN doc.m
                 /\ doc.m[key].t # "str"
                 /\ AlertDecode(Restored(doc, key, Str("x"))).ok)
                => (~res.ok /\ res.err = "TypeMismatch" /\ res.field = key)
       /\ (/\ "expires" \notin DOMAIN doc.m
           /\ \A key \in {"title", "description", "uri"} :
                 key \in DOMAIN doc.m /\ doc.m[key].t = "str")
          => res.ok

FieldOf(entity, key) ==
    CHOOSE fd \in {Fields(entity)[i] : i \in 1..Len(Fields(entity))} :
       fd.k = key

InvalidAt(entity, order, m) ==
    {i \in 1..Len(order) : ~Extract(FieldOf(entity, order[i]), m).ok}

FirstFailure(entity, order, m) ==
    Extract(FieldOf(entity, order[FirstIndex(InvalidAt(entity, order, m))]), m)

DeclarationOrder(entity) ==
    IF entity = "Alert" THEN AlertDeclaration ELSE ForecastDeclaration

(* the order in which the struct expression of decode names the fields *)
ExtractionOrder(entity) ==
    IF entity = "Alert"
    THEN <<"description", "expires", "title", "uri">>
    ELSE <<"alerts", "currently", "daily", "flags", "hourly", "latitude",
           "longitude", "minutely", "offset", "timezone">>

(* C12 as stated: with several invalid or missing fields the decoder       *)
(* reports the error of the invalid field that comes first in the order    *)
(* the entity declares its fields.                                         *)
C12_FirstInDeclarationOrder ==
    (/\ op \in {"Alert", "Forecast"}
     /\ doc.t = "obj"
     /\ InvalidAt(op, DeclarationOrder(op), doc.m) # {})
    => res = FirstFailure(op, DeclarationOrder(op), doc.m)

(* C12, amended: with several invalid or missing fields the decoder        *)
(* reports exactly one error, that of the first field whose extraction     *)
(* fails in the order in which decode extracts the fields (for Alert:      *)
(* description, expires, title, uri).                                      *)
C12_FirstInExtractionOrder ==
    (/\ op \in {"Alert", "Forecast"}
     /\ doc.t = "obj"
     /\ InvalidAt(op, ExtractionOrder(op), doc.m) # {})
    => res = FirstFailure(op, ExtractionOrder(op), doc.m)

C12_Witness ==
    /\ op = "Alert"
    /\ doc.t = "obj"
    /\ "description" \notin DOMAIN doc.m
    /\ "expires" \in DOMAIN doc.m
    /\ as_u64(doc.m["expires"]) = None
    /\ res = Missing("description")

(* the nested entities of a Forecast document, and what can go wrong in it *)
NestedRequired ==
    {<<"currently", "Current">>, <<"daily", "Daily">>, <<"flags", "Flags">>,
     <<"hourly", "Hourly">>}

Nested == NestedRequired \cup {<<"minutely", "Minutely">>}

ForecastFailures(m) ==
    {Missing(key) :
       key \in {"currently", "daily", "flags", "hourly", "latitude",
                "longitude", "offset", "timezone"} \ DOMAIN m}
    \cup {DecodeEntity(n[2], m[n[1]]) :
            n \in {x \in Nested : /\ x[1] \in DOMAIN m
                                  /\ ~DecodeEntity(x[2], m[x[1]]).ok}}
    \cup {TypeMismatch(key, "float", m[key]) :
            key \in {x \in {"latitude", "longitude", "offset"} \cap DOMAIN m :
                       m[x].t # "num"}}
    \cup (IF "timezone" \in DOMAIN m /\ m["timezone"].t # "str"
          THEN {TypeMismatch("timezone", "string", m["timezone"])} ELSE {})
    \cup (IF "alerts" \notin DOMAIN m THEN {}
          ELSE IF m["alerts"].t # "arr"
               THEN {TypeMismatch("alerts", "array", m["alerts"])}
               ELSE {AlertDecode(m["alerts"].a[i]) :
                       i \in Failing("Alert", m["alerts"].a)})

C14_SingleGetNoRetry ==
    kind = "Client"
    => /\ doc.gets <= 1
       /\ doc.reads <= doc.gets
       /\ (doc.pc = "done" => doc.gets = 1)
       /\ (doc.pc # "done" => res = NotCalled)
       /\ (~res.ok /\ res.err = "Hyper")
          => /\ doc.reads = 0
             /\ doc.pc = "done"
             /\ res.cause = "connection refused"
       /\ (~res.ok /\ res.err = "Json")
          => /\ doc.reads = 1
             /\ res.cause = "expected value"
       /\ (res.ok => doc.reads = 1)

C14_Witness ==
    /\ kind = "Client"
    /\ op = "get_forecast_with_options"
    /\ res = FromHyperError("connection refused")
    /\ doc.gets = 1
    /\ doc.reads = 0

(***************************************************************************)
(* C15: after exclude(blocks) the `exclude` parameter is the names of the  *)
(* blocks in the order given with one comma between neighbours: 2n-1       *)
(* pieces for n blocks (none for no block), names at the odd places, each  *)
(* one of the five block names, commas at the even places.                 *)
(***************************************************************************)
BlockNames == {"currently", "daily", "flags", "hourly", "minutely"}

BlockToken(b) ==
    CASE b = "Currently" -> "currently"
      [] b = "Daily" -> "daily"
      [] b = "Flags" -> "flags"
      [] b = "Hourly" -> "hourly"
      [] b = "Minutely" -> "minutely"

IsCommaJoined(value, blocks) ==
    /\ Len(value) = (IF blocks = <<>> THEN 0 ELSE 2 * Len(blocks) - 1)
    /\ \A i \in 1..Len(blocks) :
          /\ value[2 * i - 1] = BlockToken(blocks[i])
          /\ value[2 * i - 1] \in BlockNames
    /\ \A i \in 1..(Len(blocks) - 1) : value[2 * i] = ","

C15_ExcludeCommaJoined ==
    (kind = "Client" /\ doc.last["exclude"] # None)
    => /\ "exclude" \in DOMAIN doc.opts
       /\ IsCommaJoined(doc.opts["exclude"], doc.last["exclude"][1])

C15_Witness ==
    /\ kind = "Client"
    /\ doc.last["exclude"] = Some(<<"Currently", "Daily">>)
    /\ doc.opts["exclude"] = <<"currently", ",", "daily">>

(***************************************************************************)
(* C16: whatever builder calls were made on empty options, the map holds   *)
(* only the keys exclude, extend, lang and units; a key is present exactly *)
(* when its method was called, with the value of the last call; a further  *)
(* call of any method leaves the three other keys as they are, calls of    *)
(* two different methods give the same map in either order, and a call     *)
(* made twice gives the same map as the call made once.                    *)
(***************************************************************************)
OptionKeys == {"exclude", "extend", "lang", "units"}

KeyOf(method) ==
    CASE method = "exclude" -> "exclude"
      [] method = "extend_hourly" -> "extend"
      [] method = "language" -> "lang"
      [] method = "unit" -> "units"

LanguageToken(l) ==
    CASE l = "En" -> "en"
      [] l = "Es" -> "es"
      [] l = "XPigLatin" -> "x-pig-latin"
      [] l = "ZhTw" -> "zh-tw"

UnitToken(u) ==
    CASE u = "Auto" -> "auto"
      [] u = "Ca" -> "ca"
      [] u = "Si" -> "si"
      [] u = "Uk2" -> "uk2"
      [] u = "Us" -> "us"

IsValueOf(value, method, arg) ==
    CASE method = "exclude" -> IsCommaJoined(value, arg)
      [] method = "extend_hourly" -> value = <<"hourly">>
      [] method = "language" -> value = <<LanguageToken(arg)>>
      [] method = "unit" -> value = <<UnitToken(arg)>>

SameOn(o1, o2, keys) ==
    \A key \in keys :
        /\ key \in DOMAIN o1 <=> key \in DOMAIN o2
        /\ key \in DOMAIN o1 => o1[key] = o2[key]

(* the calls a second method is tried with: one or no block excluded *)
ShortCalls == {c \in BuilderCalls : c[1] = "exclude" => Len(c[2]) <= 1}

C16_OptionsAlgebra ==
    (kind = "Client" /\ doc.pc = "build")
    => LET o == doc.opts
       IN  /\ DOMAIN o \subseteq OptionKeys
           /\ \A m \in Methods :
                 /\ KeyOf(m) \in DOMAIN o <=> doc.last[m] # None
                 /\ doc.last[m] # None
                    => IsValueOf(o[KeyOf(m)], m, doc.last[m][1])
           /\ \A c \in BuilderCalls :
                 /\ SameOn(Apply(o, c), o, OptionKeys \ {KeyOf(c[1])})
                 /\ KeyOf(c[1]) \in DOMAIN Apply(o, c)
                 /\ Apply(Apply(o, c), c) = Apply(o, c)
                 /\ \A d \in ShortCalls :
                       c[1] # d[1]
                       => Apply(Apply(o, c), d) = Apply(Apply(o, d), c)

(* the options of the crate's own test: four methods called once each *)
C16_Witness ==
    /\ kind = "Client"
    /\ doc.pc = "build"
    /\ doc.last = [exclude |-> Some(<<"Currently", "Daily">>),
                   extend_hourly |-> Some(TRUE),
                   language |-> Some("Es"),
                   unit |-> Some("Si")]
    /\ doc.opts = [exclude |-> <<"currently", ",", "daily">>,
                   extend |-> <<"hourly">>,
                   lang |-> <<"es">>,
                   units |-> <<"si">>]

(***************************************************************************)
(* C17: get_forecast requests the query that get_forecast_with_options     *)
(* requests when its closure sets no option: the same set of parameters,   *)
(* the same `units` among them.                                            *)
(***************************************************************************)
UnitsOf(query) == {p[2] : p \in {q \in query : q[1] = "units"}}

C17_SameQueryAsNoOptions ==
    (kind = "Client" /\ op = "get_forecast")
    => /\ doc.query = WithOptionsQuery(NewClient.opts)
       /\ UnitsOf(doc.query) = UnitsOf(WithOptionsQuery(NewClient.opts))

(***************************************************************************)
(* C18: a value of precipIntensity, precipProbability or windBearing that  *)
(* HourlyData::decode accepts for that key is accepted for it by           *)
(* Current::decode too: a `currently` document that is valid but for such  *)
(* a value decodes.                                                        *)
(***************************************************************************)
SharedKeys == {"precipIntensity", "precipProbability", "windBearing"}

C18_SameCoercionInCurrent ==
    (op = "Current" /\ doc.t = "obj")
    => \A key \in SharedKeys \cap DOMAIN doc.m :
          (/\ HourlyDataDecode(
                  Restored(BaseHourlyData(1000), key, doc.m[key])).ok
           /\ CurrentDecode(Restored(doc, key, PosInt(1))).ok)
          => res.ok

====
